---- MODULE Spec2Model ----
(***************************************************************************)
(* A model of chdb-rust's Connection (src/src/connection.rs) and of its    *)
(* foreign handle wrappers (src/src/arrow_stream.rs).                      *)
(*                                                                         *)
(* Strings are sequences of byte values.  Pointers are naturals, NULL the  *)
(* null pointer.  The engine behind the bindings is the environment: what  *)
(* it returns is chosen nondeterministically, a fresh address standing for *)
(* every non-null connection handle it hands out.                          *)
(***************************************************************************)
EXTENDS Integers, Sequences, FiniteSets, TLC

\* ------------------------------------------------------------------ bounds
MaxLen == 2
NThreads == 2
MaxConnects == 2
MaxAddr == 1
MaxHandles == 2

\* --------------------------------------------------------------- constants
NULL == 0

Threads == 1 .. NThreads
ConnPtrs == 1 .. MaxConnects
Addresses == 0 .. MaxAddr

\* the bytes strings are made of: the null byte and one other byte ('x')
Bytes == {0, 120}

RECURSIVE SeqsUpTo(_, _)
SeqsUpTo(S, n) ==
    IF n = 0 THEN {<< >>}
    ELSE LET shorter == SeqsUpTo(S, n - 1)
         IN  shorter \cup {Append(s, b) : s \in {x \in shorter : Len(x) = n - 1}, b \in S}

Strings == SeqsUpTo(Bytes, MaxLen)

\* "clickhouse" and "--path="
EngineName == <<99, 108, 105, 99, 107, 104, 111, 117, 115, 101>>
PathPrefix == <<45, 45, 112, 97, 116, 104, 61>>

\* the argument lists open is called with: an arbitrary string alone, or
\* before or after the engine's name
ArgLists ==
    {<< >>} \cup {<<s>> : s \in Strings}
            \cup {<<EngineName, s>> : s \in Strings}
            \cup {<<s, EngineName>> : s \in Strings}

\* ------------------------------------------------------------ error values
NoVal == << >>

Ok(v) == [tag |-> "Ok", kind |-> "", msg |-> NoVal, val |-> v]
Err(k, m) == [tag |-> "Err", kind |-> k, msg |-> m, val |-> NoVal]

ErrNul == Err("Nul", NoVal)
ErrConnectionFailed == Err("ConnectionFailed", NoVal)
ErrNoResult == Err("NoResult", NoVal)
QueryError(m) == Err("QueryError", m)

\* ----------------------------------------------------------------- CString
HasNul(s) == \E i \in 1 .. Len(s) : s[i] = 0

\* a conversion that does not look for the null byte
CString_new_unchecked(s) == Ok(Append(s, 0))

\* CString::new: an interior null byte is an error, otherwise the bytes are
\* stored followed by the terminator
CString_new(s) == IF HasNul(s) THEN ErrNul ELSE Ok(Append(s, 0))

\* what the engine reads behind a char pointer: the bytes before the first
\* null byte
RECURSIVE CStr(_)
CStr(bytes) ==
    IF bytes = << >> \/ Head(bytes) = 0 THEN << >>
    ELSE <<Head(bytes)>> \o CStr(Tail(bytes))

\* as_ptr: the stored bytes, as the engine reads them
as_ptr(c) == CStr(c.val)

\* ------------------------------------------------------------------- state
VARIABLES
    held,       \* held[t]: the Connection values thread t owns
    allocated,  \* how many non-null handles chdb_connect has returned
    session,    \* session[p]: what *p holds for the handle p
    closeLog,   \* closeLog[p]: the threads that called chdb_close_conn(p)
    opened,     \* the handles open returned a Connection for
    tables,     \* tables[p]: the names registered in p's session
    fh,         \* fh[i]: a foreign handle, its holder, the address it was made from
    last,       \* the latest operation: its inputs, engine calls and result
    prev        \* the operation before the latest, where a caller keeps it

vars == <<held, allocated, session, closeLog, opened, tables, fh, last, prev>>

Connection(p) == [inner |-> p]

NoCall == << >>
NoOp == [op |-> "none", thread |-> 0, conn |-> NULL, ins |-> << >>, pre |-> {},
         calls |-> NoCall, result |-> Ok(NoVal)]

NoHandle == [owner |-> 0, h |-> [kind |-> "", inner |-> NULL], src |-> NULL]

Init ==
    /\ held = [t \in Threads |-> {}]
    /\ allocated = 0
    /\ session = [p \in ConnPtrs |-> NULL]
    /\ closeLog = [p \in ConnPtrs |-> << >>]
    /\ opened = {}
    /\ tables = [p \in ConnPtrs |-> {}]
    /\ fh = [i \in 1 .. MaxHandles |-> NoHandle]
    /\ last = NoOp
    /\ prev = NoOp

\* -------------------------------------------------------------------- open
\* the collect of the CString::new results: the first error, or all of them
CollectCStrings(args) ==
    LET cs == [i \in 1 .. Len(args) |-> CString_new(args[i])]
    IN  IF \E i \in 1 .. Len(args) : cs[i].tag = "Err"
        THEN cs[CHOOSE i \in 1 .. Len(args) :
                    /\ cs[i].tag = "Err"
                    /\ \A j \in 1 .. i - 1 : cs[j].tag = "Ok"]
        ELSE Ok(cs)

\* an open that checks conn_ptr alone
open_result_one_check(conn_ptr, conn) ==
    IF conn_ptr = NULL THEN ErrConnectionFailed ELSE Ok(Connection(conn_ptr))

\* the checks of what chdb_connect returned: conn_ptr, and conn = *conn_ptr
open_result(conn_ptr, conn) ==
    IF conn_ptr = NULL THEN ErrConnectionFailed
    ELSE IF conn = NULL THEN ErrConnectionFailed
    ELSE Ok(Connection(conn_ptr))

ConnectAnswers == {"null_handle", "null_session", "session"}

\* chdb_connect(argc, argv) as open calls it and as the engine answers it
ConnectCall(argv, conn_ptr, conn) ==
    [fn |-> "chdb_connect", argc |-> Len(argv), argv |-> argv,
     ret |-> conn_ptr, deref |-> conn]

\* Connection::open, called by thread t as operation op with inputs ins
open(t, op, ins, args) ==
    LET c_args == CollectCStrings(args) IN
    IF c_args.tag = "Err"
    THEN /\ last' = [op |-> op, thread |-> t, conn |-> NULL, ins |-> ins,
                     pre |-> {}, calls |-> NoCall, result |-> c_args]
         /\ UNCHANGED <<held, allocated, session, closeLog, opened, tables, fh>>
    ELSE \E answer \in ConnectAnswers :
         /\ answer # "null_handle" => allocated < MaxConnects
         /\ LET argv == [i \in 1 .. Len(args) |-> as_ptr(c_args.val[i])]
                conn_ptr == IF answer = "null_handle" THEN NULL ELSE allocated + 1
                conn == IF answer = "session" THEN conn_ptr ELSE NULL
                result == open_result(conn_ptr, conn)
            IN  /\ allocated' = IF conn_ptr = NULL THEN allocated ELSE conn_ptr
                /\ session' = IF conn_ptr = NULL THEN session
                              ELSE [session EXCEPT ![conn_ptr] = conn]
                /\ held' = IF result.tag = "Ok"
                           THEN [held EXCEPT ![t] = @ \cup {result.val}]
                           ELSE held
                /\ opened' = IF result.tag = "Ok"
                             THEN opened \cup {result.val.inner}
                             ELSE opened
                /\ last' = [op |-> op, thread |-> t,
                            conn |-> IF result.tag = "Ok" THEN result.val.inner ELSE NULL,
                            ins |-> ins,
                            pre |-> {}, calls |-> <<ConnectCall(argv, conn_ptr, conn)>>,
                            result |-> result]
                /\ UNCHANGED <<closeLog, tables, fh>>

Open(t, args) == open(t, "open", args, args)

open_in_memory(t) == open(t, "open_in_memory", << >>, <<EngineName>>)

OpenInMemory(t) == open_in_memory(t)

\* a path argument without its option name
path_arg_without_prefix(path) == path

\* format!("--path={path}")
path_arg(path) == PathPrefix \o path

open_with_path(t, path) ==
    open(t, "open_with_path", <<path>>, <<EngineName, path_arg(path)>>)

OpenWithPath(t, path) == open_with_path(t, path)

\* -------------------------------------------------------------------- drop
CloseCall(p) == [fn |-> "chdb_close_conn", conn |-> p]

\* a Drop that forgets the close call
drop_without_close(t, c, how) ==
    /\ held' = [held EXCEPT ![t] = @ \ {c}]
    /\ last' = [op |-> "drop", thread |-> t, conn |-> c.inner, ins |-> <<how>>,
                pre |-> {}, calls |-> NoCall, result |-> Ok(NoVal)]
    /\ UNCHANGED <<allocated, session, closeLog, opened, tables, fh>>

\* a Drop that closes the handle and leaves the owner its Connection
drop_keeping_connection(t, c, how) ==
    /\ closeLog' = [closeLog EXCEPT ![c.inner] = Append(@, t)]
    /\ tables' = [tables EXCEPT ![c.inner] = {}]
    /\ last' = [op |-> "drop", thread |-> t, conn |-> c.inner, ins |-> <<how>>,
                pre |-> tables[c.inner], calls |-> <<CloseCall(c.inner)>>,
                result |-> Ok(NoVal)]
    /\ UNCHANGED <<held, allocated, session, opened, fh>>

\* impl Drop for Connection, run when the owner t lets go of c
drop(t, c, how) ==
    /\ held' = [held EXCEPT ![t] = @ \ {c}]
    /\ IF c.inner # NULL
       THEN /\ closeLog' = [closeLog EXCEPT ![c.inner] = Append(@, t)]
            /\ tables' = [tables EXCEPT ![c.inner] = {}]
            /\ last' = [op |-> "drop", thread |-> t, conn |-> c.inner, ins |-> <<how>>,
                        pre |-> tables[c.inner], calls |-> <<CloseCall(c.inner)>>,
                        result |-> Ok(NoVal)]
       ELSE /\ UNCHANGED <<closeLog, tables>>
            /\ last' = [op |-> "drop", thread |-> t, conn |-> c.inner, ins |-> <<how>>,
                        pre |-> {}, calls |-> NoCall, result |-> Ok(NoVal)]
    /\ UNCHANGED <<allocated, session, opened, fh>>

ScopeExits == {"return", "early_return", "unwind"}

Drop(t, c, how) == c \in held[t] /\ drop(t, c, how)

\* -------------------------------------------------------- foreign handles
\* a constructor that drops the address
ArrowStream_from_raw_null(stream) == [kind |-> "ArrowStream", inner |-> NULL]

ArrowStream_from_raw(stream) == [kind |-> "ArrowStream", inner |-> stream]

ArrowStream_as_raw(h) == h.inner

ArrowSchema_from_raw(schema) == [kind |-> "ArrowSchema", inner |-> schema]

ArrowSchema_as_raw(h) == h.inner

ArrowArray_from_raw(array) == [kind |-> "ArrowArray", inner |-> array]

ArrowArray_as_raw(h) == h.inner

\* derive(Clone, Copy): the copy of a handle holds the same address
CopyOf(h) == [kind |-> h.kind, inner |-> h.inner]

HandleKinds == {"ArrowStream", "ArrowSchema", "ArrowArray"}

from_raw(kind, a) ==
    CASE kind = "ArrowStream" -> ArrowStream_from_raw(a)
      [] kind = "ArrowSchema" -> ArrowSchema_from_raw(a)
      [] kind = "ArrowArray" -> ArrowArray_from_raw(a)

as_raw(h) ==
    CASE h.kind = "ArrowStream" -> ArrowStream_as_raw(h)
      [] h.kind = "ArrowSchema" -> ArrowSchema_as_raw(h)
      [] h.kind = "ArrowArray" -> ArrowArray_as_raw(h)

FreeSlots == {i \in 1 .. MaxHandles : fh[i] = NoHandle}
SlotsOf(t) == {i \in 1 .. MaxHandles : fh[i].owner = t}
FirstFree == CHOOSE i \in FreeSlots : \A j \in FreeSlots : i <= j

HandleOp(op, t, ins, result) ==
    [op |-> op, thread |-> t, conn |-> NULL, ins |-> ins, pre |-> {},
     calls |-> NoCall, result |-> result]

\* thread t wraps the address a
FromRaw(t, kind, a) ==
    /\ FreeSlots # {}
    /\ fh' = [fh EXCEPT ![FirstFree] = [owner |-> t, h |-> from_raw(kind, a), src |-> a]]
    /\ last' = HandleOp("from_raw", t, <<kind, a>>, Ok(NoVal))
    /\ UNCHANGED <<held, allocated, session, closeLog, opened, tables>>

\* thread t copies the handle in slot i (let stream2 = stream)
CopyHandle(t, i) ==
    /\ i \in SlotsOf(t)
    /\ FreeSlots # {}
    /\ fh' = [fh EXCEPT ![FirstFree] = [owner |-> t, h |-> CopyOf(fh[i].h), src |-> fh[i].src]]
    /\ last' = HandleOp("copy", t, <<i>>, Ok(NoVal))
    /\ UNCHANGED <<held, allocated, session, closeLog, opened, tables>>

\* thread t moves the handle in slot i into a thread u; the handle is Copy,
\* so t keeps its own
SendHandle(t, u, i) ==
    /\ i \in SlotsOf(t)
    /\ t # u
    /\ FreeSlots # {}
    /\ fh' = [fh EXCEPT ![FirstFree] = [owner |-> u, h |-> CopyOf(fh[i].h), src |-> fh[i].src]]
    /\ last' = HandleOp("send", t, <<i, u>>, Ok(NoVal))
    /\ UNCHANGED <<held, allocated, session, closeLog, opened, tables>>

\* thread t reads the address of the handle in slot i
AsRaw(t, i) ==
    /\ i \in SlotsOf(t)
    /\ last' = HandleOp("as_raw", t, <<i>>, Ok(as_raw(fh[i].h)))
    /\ UNCHANGED <<held, allocated, session, closeLog, opened, tables, fh>>

\* a handle that owns its referent: letting go of it has the engine release
\* the foreign object
DiscardHandleReleasing(t, i) ==
    /\ i \in SlotsOf(t)
    /\ fh' = [fh EXCEPT ![i] = NoHandle]
    /\ last' = [HandleOp("discard", t, <<i>>, Ok(NoVal)) EXCEPT
                    !.calls = <<[fn |-> "release", ptrs |-> <<as_raw(fh[i].h)>>]>>]
    /\ UNCHANGED <<held, allocated, session, closeLog, opened, tables>>

\* thread t lets go of the handle in slot i: the handles have no Drop
DiscardHandle(t, i) ==
    /\ i \in SlotsOf(t)
    /\ fh' = [fh EXCEPT ![i] = NoHandle]
    /\ last' = HandleOp("discard", t, <<i>>, Ok(NoVal))
    /\ UNCHANGED <<held, allocated, session, closeLog, opened, tables>>

\* ------------------------------------------------------------------- query
\* OutputFormat and its as_str: "CSV" and "JSONEachRow"
OutputFormats == {"CSV", "JSONEachRow"}

OutputFormat_as_str(format) ==
    IF format = "CSV" THEN <<67, 83, 86>>
    ELSE <<74, 83, 79, 78, 69, 97, 99, 104, 82, 111, 119>>

\* what chdb_query returns: the null pointer, or a result that carries an
\* error of the engine or none
ResultPtrs ==
    {[addr |-> NULL, error |-> FALSE], [addr |-> 1, error |-> FALSE],
     [addr |-> 1, error |-> TRUE]}

\* the message of an error the engine reports in a result ("e")
EngineMessage == <<101>>

QueryResult_new(result_ptr) == [inner |-> result_ptr]

check_error(result) ==
    IF result.inner.error THEN QueryError(EngineMessage) ELSE Ok(result)

\* a query that takes a non-null pointer for success
query_result_unchecked(result_ptr) ==
    IF result_ptr.addr = NULL THEN ErrNoResult ELSE Ok(QueryResult_new(result_ptr))

\* the checks of what chdb_query returned
query_result(result_ptr) ==
    IF result_ptr.addr = NULL THEN ErrNoResult
    ELSE check_error(QueryResult_new(result_ptr))

QueryCall(conn, sql, format, result_ptr) ==
    [fn |-> "chdb_query", conn |-> conn, name |-> sql, format |-> format,
     ptrs |-> << >>, ret |-> result_ptr]

\* a query that gives the Connection up when the engine returns no result
query_giving_up_connection(t, c, sql, format) ==
    LET query_cstr == CString_new(sql)
        format_cstr == CString_new(OutputFormat_as_str(format))
        early == IF query_cstr.tag = "Err" THEN query_cstr ELSE format_cstr
    IN  IF early.tag = "Err"
        THEN /\ last' = [op |-> "query", thread |-> t, conn |-> c.inner,
                         ins |-> <<sql, format>>, pre |-> tables[c.inner],
                         calls |-> NoCall, result |-> early]
             /\ UNCHANGED <<held, allocated, session, closeLog, opened, tables, fh>>
        ELSE \E result_ptr \in ResultPtrs :
             /\ last' = [op |-> "query", thread |-> t, conn |-> c.inner,
                         ins |-> <<sql, format>>,
                         pre |-> tables[c.inner],
                         calls |-> <<QueryCall(session[c.inner], as_ptr(query_cstr),
                                               as_ptr(format_cstr), result_ptr)>>,
                         result |-> query_result(result_ptr)]
             /\ held' = IF result_ptr.addr = NULL
                        THEN [held EXCEPT ![t] = @ \ {c}]
                        ELSE held
             /\ UNCHANGED <<allocated, session, closeLog, opened, tables, fh>>

\* a query that asks the engine again after a null result pointer
query_retrying(t, c, sql, format) ==
    LET query_cstr == CString_new(sql)
        format_cstr == CString_new(OutputFormat_as_str(format))
        early == IF query_cstr.tag = "Err" THEN query_cstr ELSE format_cstr
    IN  IF early.tag = "Err"
        THEN /\ last' = [op |-> "query", thread |-> t, conn |-> c.inner,
                         ins |-> <<sql, format>>, pre |-> tables[c.inner],
                         calls |-> NoCall, result |-> early]
             /\ UNCHANGED <<held, allocated, session, closeLog, opened, tables, fh>>
        ELSE \E first, second \in ResultPtrs :
             LET call(ptr) == QueryCall(session[c.inner], as_ptr(query_cstr),
                                        as_ptr(format_cstr), ptr)
             IN  /\ last' = [op |-> "query", thread |-> t, conn |-> c.inner,
                             ins |-> <<sql, format>>,
                             pre |-> tables[c.inner],
                             calls |-> IF first.addr = NULL
                                       THEN <<call(first), call(second)>>
                                       ELSE <<call(first)>>,
                             result |-> IF first.addr = NULL THEN query_result(second)
                                        ELSE query_result(first)]
                 /\ UNCHANGED <<held, allocated, session, closeLog, opened, tables, fh>>

\* Connection::query on c, owned by t
query(t, c, sql, format) ==
    LET query_cstr == CString_new(sql)
        format_cstr == CString_new(OutputFormat_as_str(format))
        early == IF query_cstr.tag = "Err" THEN query_cstr ELSE format_cstr
    IN  IF early.tag = "Err"
        THEN /\ last' = [op |-> "query", thread |-> t, conn |-> c.inner,
                         ins |-> <<sql, format>>, pre |-> tables[c.inner], calls |-> NoCall,
                         result |-> early]
             /\ UNCHANGED <<held, allocated, session, closeLog, opened, tables, fh>>
        ELSE \E result_ptr \in ResultPtrs :
             LET conn == session[c.inner] IN
             /\ last' = [op |-> "query", thread |-> t, conn |-> c.inner,
                         ins |-> <<sql, format>>,
                         pre |-> tables[c.inner],
                         calls |-> <<QueryCall(conn, as_ptr(query_cstr),
                                               as_ptr(format_cstr), result_ptr)>>,
                         result |-> query_result(result_ptr)]
             /\ UNCHANGED <<held, allocated, session, closeLog, opened, tables, fh>>

Query(t, c, sql, format) == c \in held[t] /\ query(t, c, sql, format)

\* ---------------------------------------------------------- Arrow tables
chdb_state_CHDBSuccess == "CHDBSuccess"

\* the status values the engine returns
States == {chdb_state_CHDBSuccess, "CHDBError", "CHDBOther"}

\* "Failed to register Arrow stream as table '", "Failed to register Arrow
\* array as table '", "Failed to unregister Arrow table '" and "'"
StreamMessage ==
    <<70, 97, 105, 108, 101, 100, 32, 116, 111, 32, 114, 101, 103, 105, 115, 116,
      101, 114, 32, 65, 114, 114, 111, 119, 32, 115, 116, 114, 101, 97, 109, 32,
      97, 115, 32, 116, 97, 98, 108, 101, 32, 39>>
ArrayMessage ==
    <<70, 97, 105, 108, 101, 100, 32, 116, 111, 32, 114, 101, 103, 105, 115, 116,
      101, 114, 32, 65, 114, 114, 111, 119, 32, 97, 114, 114, 97, 121, 32, 97,
      115, 32, 116, 97, 98, 108, 101, 32, 39>>
UnregisterMessage ==
    <<70, 97, 105, 108, 101, 100, 32, 116, 111, 32, 117, 110, 114, 101, 103, 105,
      115, 116, 101, 114, 32, 65, 114, 114, 111, 119, 32, 116, 97, 98, 108, 101,
      32, 39>>
Quote == <<39>>

\* a message without the table name
register_arrow_stream_result_no_name(state, table_name) ==
    IF state = chdb_state_CHDBSuccess THEN Ok(NoVal)
    ELSE QueryError(StreamMessage \o Quote)

register_arrow_stream_result(state, table_name) ==
    IF state = chdb_state_CHDBSuccess THEN Ok(NoVal)
    ELSE QueryError(StreamMessage \o table_name \o Quote)

register_arrow_array_result(state, table_name) ==
    IF state = chdb_state_CHDBSuccess THEN Ok(NoVal)
    ELSE QueryError(ArrayMessage \o table_name \o Quote)

\* an unregister that reports a failure once and takes the next one for
\* success
unregister_arrow_table_result_reporting_once(state, table_name) ==
    IF state = chdb_state_CHDBSuccess THEN Ok(NoVal)
    ELSE IF last.op = "unregister_arrow_table" /\ last.result.tag = "Err"
         THEN Ok(NoVal)
         ELSE QueryError(UnregisterMessage \o table_name \o Quote)

unregister_arrow_table_result(state, table_name) ==
    IF state = chdb_state_CHDBSuccess THEN Ok(NoVal)
    ELSE QueryError(UnregisterMessage \o table_name \o Quote)

ScanCall(fn, conn, name, ptrs, state) ==
    [fn |-> fn, conn |-> conn, name |-> name, format |-> << >>,
     ptrs |-> ptrs, ret |-> state]

\* the engine's registry after a call that returned state
Registered(p, name, state) ==
    IF state = chdb_state_CHDBSuccess
    THEN [tables EXCEPT ![p] = @ \cup {name}]
    ELSE tables

Unregistered(p, name, state) ==
    IF state = chdb_state_CHDBSuccess
    THEN [tables EXCEPT ![p] = @ \ {name}]
    ELSE tables

\* Connection::register_arrow_stream on c, owned by t
register_arrow_stream(t, c, table_name, arrow_stream) ==
    LET table_name_cstr == CString_new(table_name) IN
    IF table_name_cstr.tag = "Err"
    THEN /\ last' = [op |-> "register_arrow_stream", thread |-> t, conn |-> c.inner,
                     ins |-> <<table_name, arrow_stream>>, pre |-> tables[c.inner],
                     calls |-> NoCall,
                     result |-> table_name_cstr]
         /\ UNCHANGED <<held, allocated, session, closeLog, opened, tables, fh>>
    ELSE \E state \in States :
         LET conn == session[c.inner]
             name == as_ptr(table_name_cstr)
         IN  /\ tables' = Registered(c.inner, name, state)
             /\ last' = [op |-> "register_arrow_stream", thread |-> t, conn |-> c.inner,
                         ins |-> <<table_name, arrow_stream>>,
                         pre |-> tables[c.inner],
                         calls |-> <<ScanCall("chdb_arrow_scan", conn, name,
                                              <<ArrowStream_as_raw(arrow_stream)>>, state)>>,
                         result |-> register_arrow_stream_result(state, table_name)]
             /\ UNCHANGED <<held, allocated, session, closeLog, opened, fh>>

RegisterArrowStream(t, c, table_name, stream) ==
    /\ c \in held[t]
    /\ register_arrow_stream(t, c, table_name, ArrowStream_from_raw(stream))

\* Connection::register_arrow_array on c, owned by t
register_arrow_array(t, c, table_name, arrow_schema, arrow_array) ==
    LET table_name_cstr == CString_new(table_name) IN
    IF table_name_cstr.tag = "Err"
    THEN /\ last' = [op |-> "register_arrow_array", thread |-> t, conn |-> c.inner,
                     ins |-> <<table_name, arrow_schema, arrow_array>>,
                     pre |-> tables[c.inner], calls |-> NoCall,
                     result |-> table_name_cstr]
         /\ UNCHANGED <<held, allocated, session, closeLog, opened, tables, fh>>
    ELSE \E state \in States :
         LET conn == session[c.inner]
             name == as_ptr(table_name_cstr)
         IN  /\ tables' = Registered(c.inner, name, state)
             /\ last' = [op |-> "register_arrow_array", thread |-> t, conn |-> c.inner,
                         ins |-> <<table_name, arrow_schema, arrow_array>>,
                         pre |-> tables[c.inner],
                         calls |-> <<ScanCall("chdb_arrow_array_scan", conn, name,
                                              <<ArrowSchema_as_raw(arrow_schema),
                                                ArrowArray_as_raw(arrow_array)>>, state)>>,
                         result |-> register_arrow_array_result(state, table_name)]
             /\ UNCHANGED <<held, allocated, session, closeLog, opened, fh>>

RegisterArrowArray(t, c, table_name, schema, array) ==
    /\ c \in held[t]
    /\ register_arrow_array(t, c, table_name, ArrowSchema_from_raw(schema),
                            ArrowArray_from_raw(array))

\* an unregister that looks the name up itself and calls the engine only
\* for a registered name
unregister_arrow_table_prevalidating(t, c, table_name) ==
    LET table_name_cstr == CString_new(table_name) IN
    IF table_name_cstr.tag = "Err" \/ table_name \notin tables[c.inner]
    THEN /\ last' = [op |-> "unregister_arrow_table", thread |-> t, conn |-> c.inner,
                     ins |-> <<table_name>>, pre |-> tables[c.inner], calls |-> NoCall,
                     result |-> IF table_name_cstr.tag = "Err" THEN table_name_cstr
                                ELSE QueryError(UnregisterMessage \o table_name \o Quote)]
         /\ UNCHANGED <<held, allocated, session, closeLog, opened, tables, fh>>
    ELSE /\ tables' = Unregistered(c.inner, as_ptr(table_name_cstr), chdb_state_CHDBSuccess)
         /\ last' = [op |-> "unregister_arrow_table", thread |-> t, conn |-> c.inner,
                     ins |-> <<table_name>>, pre |-> tables[c.inner],
                     calls |-> <<ScanCall("chdb_arrow_unregister_table", session[c.inner],
                                          as_ptr(table_name_cstr), << >>,
                                          chdb_state_CHDBSuccess)>>,
                     result |-> Ok(NoVal)]
         /\ UNCHANGED <<held, allocated, session, closeLog, opened, fh>>

\* Connection::unregister_arrow_table on c, owned by t
unregister_arrow_table(t, c, table_name) ==
    LET table_name_cstr == CString_new(table_name) IN
    IF table_name_cstr.tag = "Err"
    THEN /\ last' = [op |-> "unregister_arrow_table", thread |-> t, conn |-> c.inner,
                     ins |-> <<table_name>>, pre |-> tables[c.inner], calls |-> NoCall,
                     result |-> table_name_cstr]
         /\ UNCHANGED <<held, allocated, session, closeLog, opened, tables, fh>>
    ELSE \E state \in States :
         LET conn == session[c.inner]
             name == as_ptr(table_name_cstr)
         IN  /\ tables' = Unregistered(c.inner, name, state)
             /\ last' = [op |-> "unregister_arrow_table", thread |-> t, conn |-> c.inner,
                         ins |-> <<table_name>>,
                         pre |-> tables[c.inner],
                         calls |-> <<ScanCall("chdb_arrow_unregister_table", conn, name,
                                              << >>, state)>>,
                         result |-> unregister_arrow_table_result(state, table_name)]
             /\ UNCHANGED <<held, allocated, session, closeLog, opened, fh>>

UnregisterArrowTable(t, c, table_name) ==
    c \in held[t] /\ unregister_arrow_table(t, c, table_name)

\* thread t registers a table with the ArrowStream it holds in slot i
RegisterStreamHandle(t, c, table_name, i) ==
    /\ c \in held[t]
    /\ i \in SlotsOf(t)
    /\ fh[i].h.kind = "ArrowStream"
    /\ register_arrow_stream(t, c, table_name, fh[i].h)

\* thread t registers a table with the ArrowSchema and the ArrowArray it
\* holds in slots i and j
RegisterArrayHandles(t, c, table_name, i, j) ==
    /\ c \in held[t]
    /\ i \in SlotsOf(t) /\ j \in SlotsOf(t)
    /\ fh[i].h.kind = "ArrowSchema"
    /\ fh[j].h.kind = "ArrowArray"
    /\ register_arrow_array(t, c, table_name, fh[i].h, fh[j].h)

\* -------------------------------------------------------------------- move
\* a hand-over that leaves the sender its Connection
MoveDuplicating(t, u, c) ==
    /\ c \in held[t]
    /\ t # u
    /\ held' = [held EXCEPT ![u] = @ \cup {c}]
    /\ last' = [op |-> "move", thread |-> t, conn |-> c.inner, ins |-> <<u>>,
                pre |-> tables[c.inner], calls |-> NoCall, result |-> Ok(NoVal)]
    /\ UNCHANGED <<allocated, session, closeLog, opened, tables, fh>>

\* a Connection handed from thread t to thread u: Send, and neither Clone
\* nor Copy
Move(t, u, c) ==
    /\ c \in held[t]
    /\ t # u
    /\ held' = [held EXCEPT ![t] = @ \ {c}, ![u] = @ \cup {c}]
    /\ last' = [op |-> "move", thread |-> t, conn |-> c.inner, ins |-> <<u>>,
                pre |-> tables[c.inner], calls |-> NoCall, result |-> Ok(NoVal)]
    /\ UNCHANGED <<allocated, session, closeLog, opened, tables, fh>>

\* -------------------------------------------------------------------- next
\* Threads that open, use, hand over and drop Connections.  Each operation
\* is called with a string that encodes and with one that does not.
GoodString == <<120>>
BadString == <<120, 0>>
ProbeStrings == {GoodString, BadString}

Next ==
    \/ \E t \in Threads : OpenInMemory(t) /\ UNCHANGED prev
    \/ \E t \in Threads : \E c \in held[t], how \in ScopeExits : Drop(t, c, how) /\ UNCHANGED prev
    \/ \E t, u \in Threads : \E c \in held[t] : Move(t, u, c) /\ UNCHANGED prev
    \/ \E t \in Threads : \E c \in held[t], sql \in ProbeStrings :
           Query(t, c, sql, "CSV") /\ UNCHANGED prev
    \/ \E t \in Threads : \E c \in held[t], name \in ProbeStrings :
           RegisterArrowStream(t, c, name, NULL) /\ UNCHANGED prev
    \/ \E t \in Threads : \E c \in held[t], name \in ProbeStrings :
           RegisterArrowArray(t, c, name, NULL, NULL) /\ UNCHANGED prev
    \/ \E t \in Threads : \E c \in held[t], name \in ProbeStrings :
           UnregisterArrowTable(t, c, name) /\ UNCHANGED prev

Spec == Init /\ [][Next]_vars

\* One thread with one Connection at a time, and every string up to MaxLen
\* bytes as an argument; the handles wrap the null address or another one.
Caller == CHOOSE t \in Threads : \A u \in Threads : t <= u
HandleAddresses == {NULL, MaxAddr}

StringNext ==
    \/ held[Caller] = {} /\ \E args \in ArgLists : Open(Caller, args) /\ UNCHANGED prev
    \/ held[Caller] = {} /\ OpenInMemory(Caller) /\ UNCHANGED prev
    \/ held[Caller] = {} /\ \E path \in Strings : OpenWithPath(Caller, path) /\ UNCHANGED prev
    \/ \E c \in held[Caller], how \in ScopeExits : Drop(Caller, c, how) /\ UNCHANGED prev
    \/ \E c \in held[Caller], sql \in Strings, format \in OutputFormats :
           Query(Caller, c, sql, format) /\ UNCHANGED prev
    \/ \E c \in held[Caller], name \in Strings, stream \in HandleAddresses :
           RegisterArrowStream(Caller, c, name, stream) /\ UNCHANGED prev
    \/ \E c \in held[Caller], name \in Strings, schema, array \in HandleAddresses :
           RegisterArrowArray(Caller, c, name, schema, array) /\ UNCHANGED prev
    \/ \E c \in held[Caller], name \in Strings :
           UnregisterArrowTable(Caller, c, name) /\ UNCHANGED prev

StringSpec == Init /\ [][StringNext]_vars

\* Two threads that wrap addresses, copy the handles, read them, send them
\* to each other and let go of them.
HandleThreads == {1, NThreads}

HandleNext ==
    \/ \E t \in HandleThreads, kind \in HandleKinds, a \in Addresses : FromRaw(t, kind, a) /\ UNCHANGED prev
    \/ \E t \in HandleThreads, i \in 1 .. MaxHandles : CopyHandle(t, i) /\ UNCHANGED prev
    \/ \E t, u \in HandleThreads, i \in 1 .. MaxHandles : SendHandle(t, u, i) /\ UNCHANGED prev
    \/ \E t \in HandleThreads, i \in 1 .. MaxHandles : AsRaw(t, i) /\ UNCHANGED prev
    \/ \E t \in HandleThreads, i \in 1 .. MaxHandles : DiscardHandle(t, i) /\ UNCHANGED prev

HandleSpec == Init /\ [][HandleNext]_vars

\* The same two threads with handles to the null address and to another
\* one; the first of them opens a Connection once, registers tables with the
\* handles it holds and drops the Connection.
FrameNext ==
    \/ \E t \in HandleThreads, kind \in HandleKinds, a \in HandleAddresses :
           FromRaw(t, kind, a) /\ UNCHANGED prev
    \/ \E t \in HandleThreads, i \in 1 .. MaxHandles : CopyHandle(t, i) /\ UNCHANGED prev
    \/ \E t, u \in HandleThreads, i \in 1 .. MaxHandles : SendHandle(t, u, i) /\ UNCHANGED prev
    \/ \E t \in HandleThreads, i \in 1 .. MaxHandles : AsRaw(t, i) /\ UNCHANGED prev
    \/ \E t \in HandleThreads, i \in 1 .. MaxHandles : DiscardHandle(t, i) /\ UNCHANGED prev
    \/ allocated = 0 /\ OpenInMemory(Caller) /\ UNCHANGED prev
    \/ \E c \in held[Caller] : Drop(Caller, c, "return") /\ UNCHANGED prev
    \/ \E c \in held[Caller], i \in 1 .. MaxHandles :
           RegisterStreamHandle(Caller, c, GoodString, i) /\ UNCHANGED prev
    \/ \E c \in held[Caller], i, j \in 1 .. MaxHandles :
           RegisterArrayHandles(Caller, c, GoodString, i, j) /\ UNCHANGED prev

FrameSpec == Init /\ [][FrameNext]_vars

\* One thread that opens a Connection and calls the table operations on it
\* again and again, keeping the outcome of the call before the latest.
RepeatNext ==
    \/ held[Caller] = {} /\ OpenInMemory(Caller) /\ prev' = last
    \/ \E c \in held[Caller] : Drop(Caller, c, "return") /\ prev' = last
    \/ \E c \in held[Caller], name \in ProbeStrings, stream \in HandleAddresses :
           RegisterArrowStream(Caller, c, name, stream) /\ prev' = last
    \/ \E c \in held[Caller], name \in ProbeStrings, schema, array \in HandleAddresses :
           RegisterArrowArray(Caller, c, name, schema, array) /\ prev' = last
    \/ \E c \in held[Caller], name \in ProbeStrings :
           UnregisterArrowTable(Caller, c, name) /\ prev' = last

RepeatSpec == Init /\ [][RepeatNext]_vars

\* ------------------------------------------------------------------ claims
OpenOps == {"open", "open_in_memory", "open_with_path"}
TableOps == {"register_arrow_stream", "register_arrow_array", "unregister_arrow_table"}

\* the string arguments of the latest operation
StringArgs ==
    IF last.op = "open" THEN last.ins
    ELSE IF last.op \in {"open_with_path", "query"} \cup TableOps THEN <<last.ins[1]>>
    ELSE << >>

AnyNul == \E i \in 1 .. Len(StringArgs) : HasNul(StringArgs[i])

Holders(p) == {t \in Threads : Connection(p) \in held[t]}

\* s occurs in m
Contains(m, s) ==
    \E i \in 0 .. Len(m) - Len(s) : SubSeq(m, i + 1, i + Len(s)) = s

\* C1: an operation called with a string argument that has a null byte in
\* it returns the Nul error and makes no engine call, and so the three table
\* operations return the same error for the same bad name.
C1_NulMakesNoCall ==
    AnyNul => last.result = ErrNul /\ last.calls = NoCall

C1_Witness ==
    /\ last.op = "register_arrow_array"
    /\ last.ins[1] = <<120, 0>>
    /\ last.result = ErrNul

\* C2: the handle of a Connection that open returned has no close call
\* while a thread owns the Connection and exactly one once it was dropped,
\* whatever operations ran on it and however the owner's scope ended.
C2_ClosedExactlyOnce ==
    \A p \in opened :
        /\ Holders(p) # {} => Len(closeLog[p]) = 0
        /\ Holders(p) = {} => Len(closeLog[p]) = 1

C2_Witness ==
    /\ last.op = "drop"
    /\ last.ins = <<"unwind">>
    /\ last.conn \in opened
    /\ Len(closeLog[last.conn]) = 1
    /\ \E p \in opened : p # last.conn /\ Holders(p) # {}

\* C3: a query that reached the engine returns NoResult for a null result
\* pointer, the engine's error for a result that carries one, and Ok with
\* the result only for a non-null pointer to a result without an error.
C3_TwoStageQuery ==
    last.op = "query" /\ last.calls # NoCall =>
        LET ret == last.calls[1].ret IN
        /\ ret.addr = NULL => last.result = ErrNoResult
        /\ ret.addr # NULL /\ ret.error => last.result = QueryError(EngineMessage)
        /\ last.result.tag = "Ok" <=> ret.addr # NULL /\ ~ret.error
        /\ last.result.tag = "Ok" => last.result.val = QueryResult_new(ret)

C3_Witness ==
    /\ last.op = "query"
    /\ last.calls # NoCall
    /\ last.calls[1].ret.addr # NULL
    /\ last.calls[1].ret.error
    /\ last.result.kind = "QueryError"

\* C4: a table operation called with a name without a null byte returns Ok
\* exactly when the engine's status is the success constant, and for any
\* other status a QueryError whose message contains the name.
C4_StatusMapping ==
    last.op \in TableOps /\ ~HasNul(last.ins[1]) =>
        /\ Len(last.calls) = 1
        /\ last.result.tag = "Ok" <=> last.calls[1].ret = chdb_state_CHDBSuccess
        /\ last.calls[1].ret # chdb_state_CHDBSuccess =>
               /\ last.result.kind = "QueryError"
               /\ Contains(last.result.msg, last.ins[1])

C4_Witness ==
    /\ last.op = "register_arrow_stream"
    /\ last.ins[1] = <<120, 120>>
    /\ last.calls # NoCall
    /\ last.calls[1].ret = "CHDBOther"
    /\ last.result.kind = "QueryError"

\* C5: an open whose arguments all encode returns ConnectionFailed exactly
\* when chdb_connect returned a null handle or a handle to a null session,
\* and the Connection for the handle otherwise; every Connection holds a
\* non-null handle to a non-null session, and a failed open leaves none.
C5_OpenChecksBothPointers ==
    /\ last.op \in OpenOps /\ last.calls # NoCall =>
           LET call == last.calls[1] IN
           /\ last.result = ErrConnectionFailed <=> call.ret = NULL \/ call.deref = NULL
           /\ last.result # ErrConnectionFailed => last.result = Ok(Connection(call.ret))
           /\ last.result.tag = "Err" => call.ret \notin opened /\ Holders(call.ret) = {}
    /\ \A t \in Threads : \A c \in held[t] : c.inner # NULL /\ session[c.inner] # NULL

C5_Witness ==
    /\ last.op = "open"
    /\ last.calls # NoCall
    /\ last.calls[1].ret # NULL
    /\ last.calls[1].deref = NULL
    /\ last.result = ErrConnectionFailed

\* C6: a handle of any of the three kinds returns from as_raw the address it
\* was made from, the null address included; so does every copy of it, in the
\* thread that made it and in a thread it was sent to.
C6_AsRawIsTheAddress ==
    /\ \A i \in 1 .. MaxHandles : fh[i] # NoHandle => as_raw(fh[i].h) = fh[i].src
    /\ last.op = "as_raw" => last.result = Ok(fh[last.ins[1]].src)

C6_Witness ==
    /\ last.op = "as_raw"
    /\ last.result = Ok(MaxAddr)
    /\ \E i, j \in 1 .. MaxHandles :
           /\ fh[i].owner # fh[j].owner
           /\ fh[i].owner # 0 /\ fh[j].owner # 0
           /\ fh[i].h = fh[j].h
           /\ fh[i].src = MaxAddr

\* C7: unregister_arrow_table called with a name that encodes makes the
\* engine's unregister call with that name, whether the name is registered or
\* not, and returns Ok or QueryError as the returned status says.
C7_UnregisterIsForwarded ==
    last.op = "unregister_arrow_table" /\ ~HasNul(last.ins[1]) =>
        /\ Len(last.calls) = 1
        /\ last.calls[1].fn = "chdb_arrow_unregister_table"
        /\ last.calls[1].name = last.ins[1]
        /\ last.calls[1].conn = session[last.conn]
        /\ last.result.kind \in {"", "QueryError"}
        /\ last.result = Ok(NoVal) <=> last.calls[1].ret = chdb_state_CHDBSuccess

C7_Witness ==
    /\ last.op = "unregister_arrow_table"
    /\ last.ins[1] = <<120>>
    /\ last.ins[1] \notin last.pre
    /\ last.pre # {}
    /\ last.calls # NoCall
    /\ last.result.kind = "QueryError"

\* what open does with the argument list args, said of the latest operation
ActsAsOpen(args) ==
    LET c_args == CollectCStrings(args) IN
    IF c_args.tag = "Err"
    THEN last.calls = NoCall /\ last.result = c_args
    ELSE /\ Len(last.calls) = 1
         /\ last.calls[1].fn = "chdb_connect"
         /\ last.calls[1].argc = Len(args)
         /\ last.calls[1].argv = args
         /\ last.result = open_result(last.calls[1].ret, last.calls[1].deref)

\* C8: open_in_memory() makes the connect call and returns the result of
\* open(["clickhouse"]), and open_with_path(p) those of
\* open(["clickhouse", "--path=" + p]), for every path p.
C8_ConvenienceConstructors ==
    /\ last.op = "open" => ActsAsOpen(last.ins)
    /\ last.op = "open_in_memory" => ActsAsOpen(<<EngineName>>)
    /\ last.op = "open_with_path" => ActsAsOpen(<<EngineName, PathPrefix \o last.ins[1]>>)

C8_Witness ==
    /\ last.op = "open_with_path"
    /\ last.ins[1] = <<120, 120>>
    /\ last.calls # NoCall
    /\ last.calls[1].argc = 2
    /\ last.result.tag = "Ok"

\* C9: at most one thread owns the Connection of a handle; the thread that
\* ran the latest operation on a Connection owns it, alone; a handle is closed
\* at most once, by the thread that owned its Connection last.
C9_OneOwner ==
    /\ \A p \in ConnPtrs :
           /\ Cardinality(Holders(p)) <= 1
           /\ Len(closeLog[p]) <= 1
           /\ Len(closeLog[p]) = 1 => Holders(p) = {}
    /\ last.op \in {"query"} \cup TableOps => Holders(last.conn) = {last.thread}
    /\ last.op = "move" => Holders(last.conn) = {last.ins[1]}
    /\ last.op = "drop" => closeLog[last.conn] = <<last.thread>>

C9_Witness ==
    /\ last.op = "drop"
    /\ last.thread = 2
    /\ closeLog[last.conn] = <<2>>
    /\ \E p \in opened : Holders(p) = {1}

\* C10: every non-null handle chdb_connect returned that no Connection holds
\* has been closed exactly once, the handle to a null session for which open
\* returned ConnectionFailed included.
C10_EveryHandleReleased ==
    \A p \in 1 .. allocated : Holders(p) = {} => Len(closeLog[p]) = 1

ConnOps == {"query"} \cup TableOps

\* the state of the Connection of the handle p
Lifecycle(p) ==
    IF p \notin opened THEN "Unopened"
    ELSE IF closeLog[p] = << >> THEN "Open"
    ELSE "Closed"

\* C11: a Connection goes from Unopened to Open to Closed and no other way;
\* only a teardown closes it; a step makes an execute, register, unregister
\* or close call with its handle only while it is Open, and none once it is
\* Closed.
C11_Lifecycle ==
    [][\A p \in ConnPtrs :
          /\ <<Lifecycle(p), Lifecycle(p)'>> \in
                 {<<"Unopened", "Unopened">>, <<"Unopened", "Open">>, <<"Open", "Open">>,
                  <<"Open", "Closed">>, <<"Closed", "Closed">>}
          /\ Lifecycle(p) # "Closed" /\ Lifecycle(p)' = "Closed" =>
                 last'.op = "drop" /\ last'.conn = p
          /\ Lifecycle(p) # "Open" =>
                 /\ ~(/\ last'.conn = p
                      /\ last'.op \in ConnOps \cup {"drop"}
                      /\ last'.calls # NoCall)
                 /\ closeLog'[p] = closeLog[p]]_vars

C11_Witness ==
    /\ last.op \in ConnOps
    /\ last.calls # NoCall
    /\ Lifecycle(last.conn) = "Open"
    /\ \E p \in ConnPtrs : Lifecycle(p) = "Closed"

\* C12: a step in which query or a table operation returns an error leaves
\* the Connection with its owner, Open, with the same handle and session,
\* and, when the error is Nul, leaves the registry as it was; the next
\* operation on that Connection is forwarded to the engine when its strings
\* encode, and its teardown makes the close call.
C12_ErrorLeavesConnection ==
    [][/\ last'.op \in ConnOps /\ last'.result.tag = "Err" =>
              /\ held' = held /\ session' = session /\ closeLog' = closeLog
              /\ opened' = opened /\ allocated' = allocated
              /\ Lifecycle(last'.conn) = "Open"
              /\ Holders(last'.conn) = {last'.thread}
              /\ last'.result = ErrNul => tables' = tables
       /\ last.op \in ConnOps /\ last.result.tag = "Err" /\ last'.conn = last.conn =>
              /\ last'.op \in ConnOps /\ ~AnyNul' =>
                     /\ Len(last'.calls) = 1
                     /\ last'.calls[1].conn = session[last.conn]
              /\ last'.op = "drop" => last'.calls = <<CloseCall(last.conn)>>]_vars

C12_Witness ==
    /\ last.op = "register_arrow_stream"
    /\ last.result = ErrNul
    /\ tables[last.conn] # {}
    /\ Lifecycle(last.conn) = "Open"
    /\ Holders(last.conn) = {last.thread}

\* the engine entry point of an operation
EntryPoint(op) ==
    CASE op \in OpenOps -> "chdb_connect"
      [] op = "query" -> "chdb_query"
      [] op = "register_arrow_stream" -> "chdb_arrow_scan"
      [] op = "register_arrow_array" -> "chdb_arrow_array_scan"
      [] op = "unregister_arrow_table" -> "chdb_arrow_unregister_table"
      [] op = "drop" -> "chdb_close_conn"

\* C13: an invocation of open, query, a table operation or teardown makes
\* one call, to its own entry point, when its strings encode and none
\* otherwise, whatever the engine returns; the result is Ok exactly when
\* that one return value is a success, and a handle is closed by one call.
C13_NoRetry ==
    last.op \in OpenOps \cup ConnOps \cup {"drop"} =>
        /\ Len(last.calls) = IF AnyNul THEN 0 ELSE 1
        /\ \A i \in 1 .. Len(last.calls) : last.calls[i].fn = EntryPoint(last.op)
        /\ last.op \in OpenOps /\ last.calls # NoCall =>
               (last.result.tag = "Ok" <=>
                    last.calls[1].ret # NULL /\ last.calls[1].deref # NULL)
        /\ last.op = "query" /\ last.calls # NoCall =>
               (last.result.tag = "Ok" <=>
                    last.calls[1].ret.addr # NULL /\ ~last.calls[1].ret.error)
        /\ last.op \in TableOps /\ last.calls # NoCall =>
               (last.result.tag = "Ok" <=> last.calls[1].ret = chdb_state_CHDBSuccess)
        /\ last.op = "drop" => Len(closeLog[last.conn]) = 1

C13_Witness ==
    /\ last.op = "query"
    /\ Len(last.calls) = 1
    /\ last.calls[1].ret.addr = NULL
    /\ last.result = ErrNoResult

\* C14: wrapping an address, copying a handle, reading it, sending it to
\* another thread and letting go of it make no engine call, change no
\* Connection and no session, and leave every other handle as it was; a
\* register call changes no handle and, for a name that encodes, makes one
\* scan call with the addresses the handles were made from, the null address
\* among them.
HandleOps == {"from_raw", "copy", "send", "as_raw", "discard"}

C14_HandlesOwnNothing ==
    [][/\ last'.op \in HandleOps =>
              /\ last'.calls = NoCall
              /\ UNCHANGED <<held, allocated, session, closeLog, opened, tables>>
              /\ \A i \in 1 .. MaxHandles :
                     fh[i] # NoHandle =>
                         \/ fh'[i] = fh[i]
                         \/ /\ last'.op = "discard"
                            /\ last'.ins = <<i>>
                            /\ fh'[i] = NoHandle
       /\ last'.op \in {"register_arrow_stream", "register_arrow_array"} =>
              /\ fh' = fh
              /\ UNCHANGED <<held, allocated, session, closeLog, opened>>
              /\ ~AnyNul' =>
                     /\ Len(last'.calls) = 1
                     /\ last'.calls[1].fn \in {"chdb_arrow_scan", "chdb_arrow_array_scan"}
                     /\ last'.calls[1].conn = session[last'.conn]
                     /\ last'.op = "register_arrow_stream" =>
                            \E i \in SlotsOf(last'.thread) :
                                /\ fh[i].h = last'.ins[2]
                                /\ last'.calls[1].ptrs = <<fh[i].src>>
                     /\ last'.op = "register_arrow_array" =>
                            \E i, j \in SlotsOf(last'.thread) :
                                /\ fh[i].h = last'.ins[2]
                                /\ fh[j].h = last'.ins[3]
                                /\ last'.calls[1].ptrs = <<fh[i].src, fh[j].src>>]_vars

\* a table registered with a handle to the null address, of which another
\* thread holds a copy
C14_Witness ==
    /\ last.op = "register_arrow_stream"
    /\ Len(last.calls) = 1
    /\ last.calls[1].ptrs = <<NULL>>
    /\ last.result = Ok(NoVal)
    /\ \E i, j \in 1 .. MaxHandles :
           /\ fh[i].owner = last.thread
           /\ fh[j].owner \notin {0, last.thread}
           /\ fh[i].h = last.ins[2]
           /\ fh[j].h = fh[i].h
           /\ fh[i].src = NULL

\* C15: when a table operation is called twice in a row on the same
\* Connection with the same name and the same handle addresses, the registry
\* is the same before both calls and the engine returns the same status both
\* times (or is not called either time), both calls return the same result:
\* Ok both times, or the same error both times, which after an engine call
\* is the QueryError with the same message that has the name in it.
SameInvocation ==
    /\ prev.op \in TableOps
    /\ last.op = prev.op
    /\ last.conn = prev.conn
    /\ last.ins = prev.ins
    /\ last.pre = prev.pre
    /\ Len(last.calls) = Len(prev.calls)
    /\ \A i \in 1 .. Len(last.calls) : last.calls[i].ret = prev.calls[i].ret

C15_SameAnswerSameResult ==
    SameInvocation =>
        /\ last.result = prev.result
        /\ last.calls = prev.calls
        /\ last.calls # NoCall =>
               \/ last.result = Ok(NoVal)
               \/ /\ last.result.tag = "Err"
                  /\ last.result.kind = "QueryError"
                  /\ last.result.msg = prev.result.msg
                  /\ Contains(last.result.msg, last.ins[1])

\* a name that was never registered, unregistered twice in a row with the
\* engine refusing both times
C15_Witness ==
    /\ SameInvocation
    /\ last.op = "unregister_arrow_table"
    /\ last.ins = <<GoodString>>
    /\ tables[last.conn] = {} /\ last.pre = {} /\ prev.pre = {}
    /\ Len(last.calls) = 1 /\ Len(prev.calls) = 1
    /\ last.calls[1].ret # chdb_state_CHDBSuccess
    /\ last.result.tag = "Err" /\ last.result.kind = "QueryError"
    /\ prev.result = last.result

====
